---- MODULE Spec2Model ----
(***************************************************************************)
(* Model of the Markdown table extension (src/src/extension.ts).           *)
(*                                                                         *)
(* Strings are sequences of one-character strings, so that trim, split,    *)
(* join, padEnd and repeat are computed as the JavaScript code computes    *)
(* them.  A grid is a sequence of rows, a row a sequence of cells, a cell  *)
(* a string.  Indices in the model are 1-based; the source's 0-based       *)
(* indices are named in the comments where they matter.                    *)
(***************************************************************************)
EXTENDS Integers, Sequences, FiniteSets, TLC

VARIABLES
    \* formatter / parser pipeline (generateMarkdownTable, parseMarkdownTable)
    G, fmtPc, text1, G2, text2,
    \* the document: its lines, document.getText().split("\n")
    doc,
    \* span locator: the line asked about and the span found for it
    cur, span,
    \* provideCodeLenses: the loop variable i, the lenses pushed, the position
    scanI, codeLenses, scanPc,
    \* MarkdownTableProvider: the field _panel (the panel created last, with
    \* the span its message handler captured), the panels created and not
    \* disposed, the last information or error message, and two records of
    \* the last command: the grid sortTable handed to saveTable and the edit
    \* applied to the document
    panel, openPanels, message, sortRecord, lastWrite,
    \* the webview script: its grid and selection, the last handler that ran,
    \* and what the "save" message produced in the extension
    tableData, selectedRowIndex, selectedColumnIndex, lastOp, posted

fmtVars == <<G, fmtPc, text1, G2, text2>>
locVars == <<cur, span>>
scanVars == <<scanI, codeLenses, scanPc>>
hostVars == <<panel, openPanels, message, sortRecord, lastWrite>>
editVars == <<tableData, selectedRowIndex, selectedColumnIndex, lastOp, posted>>
vars == <<fmtVars, doc, locVars, scanVars, hostVars, editVars>>

\* the parts of the state a specification does not use stay as they start
FmtOff == G = <<>> /\ fmtPc = "off" /\ text1 = <<>> /\ G2 = <<>> /\ text2 = <<>>
LocOff == cur = -1 /\ span = <<>>
ScanOff == scanI = 0 /\ codeLenses = <<>> /\ scanPc = "off"
NoPanel == [kind |-> "none"]
NoRecord == [op |-> "none"]
NotPosted == <<"none">>
EditOff ==
    /\ tableData = <<>> /\ selectedRowIndex = -1 /\ selectedColumnIndex = -1
    /\ lastOp = "off" /\ posted = NotPosted
HostOff ==
    /\ panel = NoPanel /\ openPanels = <<>> /\ message = ""
    /\ sortRecord = NoRecord /\ lastWrite = NoRecord

-----------------------------------------------------------------------------
(* Characters and JavaScript string primitives *)

NL == "\n"
Pipe == "|"
Sp == " "
Dash == "-"
Colon == ":"

\* the white space String.prototype.trim and the regex class \s strip,
\* restricted to the characters of the model
IsWs(c) == c \in {Sp, NL}

Max(S) == CHOOSE x \in S : \A y \in S : y <= x

RECURSIVE trimStart(_)
trimStart(s) ==
    IF s = <<>> THEN <<>>
    ELSE IF IsWs(Head(s)) THEN trimStart(Tail(s)) ELSE s

RECURSIVE trimEnd(_)
trimEnd(s) ==
    IF s = <<>> THEN <<>>
    ELSE IF IsWs(s[Len(s)]) THEN trimEnd(SubSeq(s, 1, Len(s) - 1)) ELSE s

\* String.prototype.trim
trim(s) == trimEnd(trimStart(s))

\* String.prototype.includes for a single character
includes(s, c) == \E i \in 1..Len(s) : s[i] = c

\* String.prototype.split on a single character: "".split(c) is [""]
RECURSIVE split(_, _)
split(s, c) ==
    IF ~includes(s, c) THEN <<s>>
    ELSE LET i == CHOOSE k \in 1..Len(s) :
                      s[k] = c /\ \A j \in 1..(k - 1) : s[j] # c
         IN  <<SubSeq(s, 1, i - 1)>> \o split(SubSeq(s, i + 1, Len(s)), c)

\* Array.prototype.join: [].join(sep) is ""
RECURSIVE join(_, _)
join(ss, sep) ==
    IF ss = <<>> THEN <<>>
    ELSE IF Len(ss) = 1 THEN ss[1]
    ELSE ss[1] \o sep \o join(Tail(ss), sep)

\* String.prototype.repeat for a single character
repeat(c, n) == [i \in 1..n |-> c]

\* String.prototype.padEnd with the default pad character (space)
padEnd(s, w) == IF Len(s) >= w THEN s ELSE s \o repeat(Sp, w - Len(s))

-----------------------------------------------------------------------------
(* The value a cell holds after moveColumn spliced a missing cell:        *)
(* JavaScript's undefined (null once the grid is posted as JSON).  It is  *)
(* a one-element sequence whose element is no character, so it is         *)
(* distinct from every string.                                            *)
Undefined == <<"undefined">>

\* the result of an uncaught TypeError (reading .length of undefined/null)
TypeError == <<"TypeError">>

IsString(c) == c # Undefined

-----------------------------------------------------------------------------
(* parseMarkdownTable and isSeparatorRow *)

\* a pattern without the colon: /^[\s\|\-]+$/
isSeparatorRow_NoColon(line) ==
    /\ Len(line) >= 1
    /\ \A i \in 1..Len(line) : IsWs(line[i]) \/ line[i] \in {Pipe, Dash}

\* /^[\s\|:\-]+$/.test(line)
isSeparatorRow(line) ==
    /\ Len(line) >= 1
    /\ \A i \in 1..Len(line) : IsWs(line[i]) \/ line[i] \in {Pipe, Colon, Dash}

\* a filter that drops the empty first element only (the cell after the
\* trailing pipe stays)
lineCells_KeepTrailing(line) ==
    LET parts == split(line, Pipe)
        trimmed == [k \in 1..Len(parts) |-> trim(parts[k])]
    IN  IF trimmed[1] = <<>> THEN Tail(trimmed) ELSE trimmed

\* line.split("|").map(trim).filter(not an empty first or last element)
lineCells(line) ==
    LET parts == split(line, Pipe)
        trimmed == [k \in 1..Len(parts) |-> trim(parts[k])]
        n == Len(trimmed)
        keep == {k \in 1..n : ~(k = 1 /\ trimmed[k] = <<>>)
                              /\ ~(k = n /\ trimmed[k] = <<>>)}
        F[k \in 0..n] ==
            IF k = 0 THEN <<>>
            ELSE IF k \in keep THEN Append(F[k - 1], trimmed[k]) ELSE F[k - 1]
    IN  F[n]

\* the loop of parseMarkdownTable over the non-blank lines; position i of
\* the source is k - 1 here, so the separator test applies at k = 2
parseLines(lines) ==
    LET n == Len(lines)
        F[k \in 0..n] ==
            IF k = 0 THEN <<>>
            ELSE LET line == trim(lines[k])
                     cells == lineCells(line)
                 IN  IF k = 2 /\ isSeparatorRow(line) THEN F[k - 1]
                     ELSE IF Len(cells) > 0 THEN Append(F[k - 1], cells)
                     ELSE F[k - 1]
    IN  F[n]

\* tableText.split("\n").filter((line) => line.trim())
nonBlankLines(tableText) == SelectSeq(split(tableText, NL), LAMBDA l : trim(l) # <<>>)

parseMarkdownTable(tableText) == parseLines(nonBlankLines(tableText))

\* the same loop, keeping for every row pushed the position i (0-based) of
\* the line it was pushed for
parseOrigins(lines) ==
    LET n == Len(lines)
        F[k \in 0..n] ==
            IF k = 0 THEN <<>>
            ELSE LET line == trim(lines[k])
                     cells == lineCells(line)
                 IN  IF k = 2 /\ isSeparatorRow(line) THEN F[k - 1]
                     ELSE IF Len(cells) > 0 THEN Append(F[k - 1], k - 1)
                     ELSE F[k - 1]
    IN  F[n]

-----------------------------------------------------------------------------
(* generateMarkdownTable *)

maxColsOf(data) == Max({Len(data[r]) : r \in 1..Len(data)})

\* every row padded with empty cells to maxCols (longer rows do not exist)
normalize(data) ==
    LET maxCols == maxColsOf(data)
    IN  [r \in 1..Len(data) |->
            data[r] \o [k \in 1..(maxCols - Len(data[r])) |-> <<>>]]

colWidthsOf(norm, maxCols) ==
    [i \in 1..maxCols |-> Max({0} \cup {Len(norm[r][i]) : r \in 1..Len(norm)})]

\* `| ${cells.join(" | ")} |`
pipeLine(cells) == <<Pipe, Sp>> \o join(cells, <<Sp, Pipe, Sp>>) \o <<Sp, Pipe>>

\* the array `lines` of generateMarkdownTable: one line per row, and the
\* separator pushed right after row index 0
tableLines(data) ==
    LET maxCols == maxColsOf(data)
        norm == normalize(data)
        colWidths == colWidthsOf(norm, maxCols)
        rowLine(r) == pipeLine([i \in 1..maxCols |-> padEnd(norm[r][i], colWidths[i])])
        sepLine == pipeLine([i \in 1..maxCols |-> repeat(Dash, colWidths[i])])
    IN  <<rowLine(1), sepLine>> \o [r \in 1..(Len(data) - 1) |-> rowLine(r + 1)]

generateMarkdownTable(data) ==
    IF Len(data) = 0 THEN <<>>
    ELSE IF \E r \in 1..Len(data) : \E i \in 1..Len(data[r]) : ~IsString(data[r][i])
         THEN TypeError
    ELSE join(tableLines(data), <<NL>>)

-----------------------------------------------------------------------------
(* Input grids of the formatter pipeline: every grid whose weight (rows +  *)
(* cells + characters) is at most MaxWeight, written as the token sequence *)
(* that builds it.                                                         *)

MaxWeight == 7

CellChar == {"a", Sp, Pipe, NL, Dash}

Tok == CellChar \cup {"ROW", "CELL"}

\* a token may follow the sequence ts: the first token opens a row, and a
\* character needs a cell to go into
CanFollow(ts, t) ==
    IF ts = <<>> THEN t = "ROW"
    ELSE t \in CellChar => ts[Len(ts)] # "ROW"

RECURSIVE TokSeqs(_)
TokSeqs(n) ==
    IF n = 0 THEN {<<>>}
    ELSE LET S == TokSeqs(n - 1)
         IN  S \cup {Append(ts, t) : <<ts, t>> \in {p \in S \X Tok : CanFollow(p[1], p[2])}}

RECURSIVE Decode(_)
Decode(ts) ==
    IF ts = <<>> THEN <<>>
    ELSE LET g == Decode(SubSeq(ts, 1, Len(ts) - 1))
             t == ts[Len(ts)]
             nr == Len(g)
         IN  IF t = "ROW" THEN Append(g, <<>>)
             ELSE IF t = "CELL" THEN [g EXCEPT ![nr] = Append(@, <<>>)]
             ELSE [g EXCEPT ![nr][Len(g[nr])] = Append(@, t)]

InputGrids == {Decode(ts) : ts \in TokSeqs(MaxWeight)}

-----------------------------------------------------------------------------
(* Formatter pipeline: format a grid, parse the text back, format again *)

FmtInit ==
    /\ G \in InputGrids
    /\ fmtPc = "input"
    /\ text1 = <<>>
    /\ G2 = <<>>
    /\ text2 = <<>>
    /\ doc = <<>> /\ LocOff /\ ScanOff /\ HostOff /\ EditOff

Format ==
    /\ fmtPc = "input"
    /\ text1' = generateMarkdownTable(G)
    /\ fmtPc' = "formatted"
    /\ UNCHANGED <<G, G2, text2>>
    /\ UNCHANGED <<doc, locVars, scanVars, hostVars, editVars>>

Reparse ==
    /\ fmtPc = "formatted"
    /\ G2' = parseMarkdownTable(text1)
    /\ fmtPc' = "parsed"
    /\ UNCHANGED <<G, text1, text2>>
    /\ UNCHANGED <<doc, locVars, scanVars, hostVars, editVars>>

Reformat ==
    /\ fmtPc = "parsed"
    /\ text2' = generateMarkdownTable(G2)
    /\ fmtPc' = "reformatted"
    /\ UNCHANGED <<G, text1, G2>>
    /\ UNCHANGED <<doc, locVars, scanVars, hostVars, editVars>>

FmtNext == Format \/ Reparse \/ Reformat

SpecFmt == FmtInit /\ [][FmtNext]_vars

-----------------------------------------------------------------------------
(* The parser on table texts: texts of up to MaxTextLines lines, parsed   *)
(* and formatted again.                                                   *)

MaxTextLines == 3

TextAB == <<Pipe, "a", Pipe, "b", Pipe>>
TextBare == <<"a", Pipe, "b">>
TextSep == <<Pipe, Dash, Pipe, Dash, Pipe>>
TextSepColon == <<Pipe, Colon, Dash, Pipe>>
TextDashes == <<Dash, Dash, Dash>>
TextLonePipe == <<Sp, Pipe>>
TextBlank == <<Sp>>

ParseLineSet == {TextAB, TextBare, TextSep, TextSepColon, TextDashes, TextLonePipe, TextBlank}

ParseTexts ==
    {join(ls, <<NL>>) : ls \in UNION {[1..n -> ParseLineSet] : n \in 1..MaxTextLines}}

\* Lines written for a row of cells: up to MaxCells cells, the first and
\* the last not empty, with or without a leading and a trailing pipe, and
\* up to MaxPad spaces before and after every cell
MaxCells == 3
MaxPad == 2

CellTexts == {<<>>, <<"a">>, <<"b">>, <<Dash>>, <<"b", Sp, "c">>}

CellRows ==
    {cells \in UNION {[1..n -> CellTexts] : n \in 1..MaxCells} :
        cells[1] # <<>> /\ cells[Len(cells)] # <<>>}

writtenLine(cells, leading, trailing, before, after) ==
    (IF leading THEN <<Pipe>> ELSE <<>>)
        \o join([i \in 1..Len(cells) |->
                    repeat(Sp, before) \o cells[i] \o repeat(Sp, after)], <<Pipe>>)
        \o (IF trailing THEN <<Pipe>> ELSE <<>>)

\* the lines written for the cells, and the same lines without the spaces
\* at their two ends
WrittenLines(cells) ==
    LET W == {writtenLine(cells, l, t, b, a) :
                l \in BOOLEAN, t \in BOOLEAN, b \in 0..MaxPad, a \in 0..MaxPad}
    IN  W \cup {trim(w) : w \in W}

\* the parser starts on a text of ParseTexts, or on a line written for the
\* one row of G
ParseInit ==
    /\ \/ text1 \in ParseTexts /\ G = <<>>
       \/ \E cells \in CellRows : G = <<cells>> /\ text1 \in WrittenLines(cells)
    /\ fmtPc = "text"
    /\ G2 = <<>>
    /\ text2 = <<>>
    /\ doc = <<>> /\ LocOff /\ ScanOff /\ HostOff /\ EditOff

ParseText ==
    /\ fmtPc = "text"
    /\ G2' = parseMarkdownTable(text1)
    /\ fmtPc' = "parsed"
    /\ UNCHANGED <<G, text1, text2>>
    /\ UNCHANGED <<doc, locVars, scanVars, hostVars, editVars>>

ParseNext == ParseText \/ Reformat

SpecParse == ParseInit /\ [][ParseNext]_vars

-----------------------------------------------------------------------------
(* Table span locator and table detection (MarkdownTableCodeLensProvider). *)
(* Line numbers are 0-based as in the source: line i is lines[i + 1].      *)

lineAt(lines, i) == lines[i + 1]

\* a test that takes every line with a pipe for a table row
isTableRow_AnyPipe(line) == includes(trim(line), Pipe)

isTableRow(line) ==
    LET trimmed == trim(line)
    IN  includes(trimmed, Pipe) /\ Len(trimmed) > 2

\* a locator that returns the line that stopped the backward scan
RECURSIVE findTableStart_OffByOne(_, _)
findTableStart_OffByOne(lines, currentLine) ==
    IF currentLine < 0 THEN 0
    ELSE IF ~isTableRow(lineAt(lines, currentLine)) THEN currentLine
    ELSE findTableStart_OffByOne(lines, currentLine - 1)

\* for (i = currentLine; i >= 0; i--) if (!isTableRow(lines[i])) return i + 1;
\* return 0
RECURSIVE findTableStart(_, _)
findTableStart(lines, currentLine) ==
    IF currentLine < 0 THEN 0
    ELSE IF ~isTableRow(lineAt(lines, currentLine)) THEN currentLine + 1
    ELSE findTableStart(lines, currentLine - 1)

\* for (i = currentLine; i < lines.length; i++)
\*   if (!isTableRow(lines[i])) return i - 1;
\* return lines.length - 1
RECURSIVE findTableEnd(_, _)
findTableEnd(lines, currentLine) ==
    IF currentLine >= Len(lines) THEN Len(lines) - 1
    ELSE IF ~isTableRow(lineAt(lines, currentLine)) THEN currentLine - 1
    ELSE findTableEnd(lines, currentLine + 1)

\* the three lenses pushed for one table, in the order of the source
lensesOf(tableStart, tableEnd) ==
    <<[title |-> "Edit", command |-> "markdown-tables.editTable",
       startLine |-> tableStart, endLine |-> tableEnd],
      [title |-> "Sort (A-Z)", command |-> "markdown-tables.sortTableAsc",
       startLine |-> tableStart, endLine |-> tableEnd],
      [title |-> "Sort (Z-A)", command |-> "markdown-tables.sortTableDesc",
       startLine |-> tableStart, endLine |-> tableEnd]>>

\* a scan that does not skip past the table it found (no i = tableEnd)
scanIteration_NoSkip(lines, i) ==
    IF isTableRow(lineAt(lines, i))
    THEN [pushed |-> lensesOf(findTableStart(lines, i), findTableEnd(lines, i)),
          next |-> i + 1]
    ELSE [pushed |-> <<>>, next |-> i + 1]

\* one iteration of the loop of provideCodeLenses at index i: the lenses it
\* pushes and the value of i when the next iteration starts (after i++)
scanIteration(lines, i) ==
    IF isTableRow(lineAt(lines, i))
    THEN LET tableStart == findTableStart(lines, i)
             tableEnd == findTableEnd(lines, i)
         IN  IF tableStart # -1 /\ tableEnd # -1
             THEN [pushed |-> lensesOf(tableStart, tableEnd), next |-> tableEnd + 1]
             ELSE [pushed |-> <<>>, next |-> i + 1]
    ELSE [pushed |-> <<>>, next |-> i + 1]

\* Documents of the locator and of the scan: up to MaxLines lines

MaxLines == 5

LineText == <<"t", "e", "x", "t">>
LineAB == <<Pipe, "a", Pipe, "b", Pipe>>
LineSep == <<Pipe, Dash, Pipe, Dash, Pipe>>
Line12 == <<Pipe, "1", Pipe, "2", Pipe>>
LineLonePipe == <<Sp, Pipe, Sp>>

LineSet == {LineText, LineAB, LineSep, Line12, LineLonePipe}

\* "".split("\n") is [""]: a document has at least one line
Docs == UNION {[1..n -> LineSet] : n \in 1..MaxLines}

(* Span locator: ask for the span of any table-like line of the document *)

LocInit ==
    /\ doc \in Docs
    /\ cur = -1
    /\ span = <<>>
    /\ FmtOff /\ ScanOff /\ HostOff /\ EditOff

Locate(i) ==
    /\ cur = -1
    /\ isTableRow(lineAt(doc, i))
    /\ cur' = i
    /\ span' = <<findTableStart(doc, i), findTableEnd(doc, i)>>
    /\ UNCHANGED <<doc, fmtVars, scanVars, hostVars, editVars>>

LocNext == \E i \in 0..(Len(doc) - 1) : Locate(i)

SpecLocate == LocInit /\ [][LocNext]_vars

(* provideCodeLenses, one loop iteration per step *)

ScanInit ==
    /\ doc \in Docs
    /\ scanI = 0
    /\ codeLenses = <<>>
    /\ scanPc = "loop"
    /\ FmtOff /\ LocOff /\ HostOff /\ EditOff

ScanStep ==
    /\ scanPc = "loop"
    /\ scanI < Len(doc)
    /\ LET it == scanIteration(doc, scanI)
       IN  /\ codeLenses' = codeLenses \o it.pushed
           /\ scanI' = it.next
    /\ UNCHANGED <<scanPc, doc, fmtVars, locVars, hostVars, editVars>>

ScanReturn ==
    /\ scanPc = "loop"
    /\ ~(scanI < Len(doc))
    /\ scanPc' = "done"
    /\ UNCHANGED <<scanI, codeLenses, doc, fmtVars, locVars, hostVars, editVars>>

ScanNext == ScanStep \/ ScanReturn

\* the scan is one synchronous call: it runs until it returns
SpecScan == ScanInit /\ [][ScanNext]_vars /\ WF_vars(ScanNext)

-----------------------------------------------------------------------------
(* MarkdownTableProvider: sortTable, editTable, saveTable on the document *)

\* the function version of provideCodeLenses: the lenses of the whole loop
RECURSIVE provideCodeLensesFrom(_, _)
provideCodeLensesFrom(lines, i) ==
    IF ~(i < Len(lines)) THEN <<>>
    ELSE LET it == scanIteration(lines, i)
         IN  it.pushed \o provideCodeLensesFrom(lines, it.next)

provideCodeLenses(lines) == provideCodeLensesFrom(lines, 0)

\* lines startLine..endLine joined by "\n"
extractTableText(lines, startLine, endLine) ==
    join([k \in 1..(endLine - startLine + 1) |-> lineAt(lines, startLine + k - 1)], <<NL>>)

\* String.prototype.toLowerCase on the letters of the model
lowerChar(c) == IF c = "A" THEN "a" ELSE IF c = "B" THEN "b" ELSE c
toLowerCase(s) == [i \in 1..Len(s) |-> lowerChar(s[i])]

\* the order localeCompare gives the (lower-cased) characters of the model:
\* white space, punctuation, digits, letters
CollationOrder == <<NL, Sp, Dash, Colon, Pipe, "1", "2", "a", "b", "e", "h", "t", "x">>
charRank(c) == CHOOSE k \in 1..Len(CollationOrder) : CollationOrder[k] = c

\* String.prototype.localeCompare: negative, zero or positive
RECURSIVE localeCompare(_, _)
localeCompare(a, b) ==
    IF a = <<>> /\ b = <<>> THEN 0
    ELSE IF a = <<>> THEN -1
    ELSE IF b = <<>> THEN 1
    ELSE IF charRank(Head(a)) < charRank(Head(b)) THEN -1
    ELSE IF charRank(Head(a)) > charRank(Head(b)) THEN 1
    ELSE localeCompare(Tail(a), Tail(b))

\* (a[0] || "").trim().toLowerCase()
sortValue(row) == toLowerCase(trim(IF Len(row) >= 1 THEN row[1] ELSE <<>>))

\* the comparator handed to Array.prototype.sort
compareRows(a, b, ascending) ==
    IF ascending THEN localeCompare(sortValue(a), sortValue(b))
    ELSE localeCompare(sortValue(b), sortValue(a))

\* Array.prototype.sort is stable: a row goes after every row already placed
\* that does not compare greater than it
insertStable(placed, x, ascending) ==
    LET after == {k \in 1..Len(placed) : compareRows(placed[k], x, ascending) > 0}
        p == IF after = {} THEN Len(placed) + 1
             ELSE CHOOSE k \in after : \A j \in after : k <= j
    IN  SubSeq(placed, 1, p - 1) \o <<x>> \o SubSeq(placed, p, Len(placed))

RECURSIVE stableSort(_, _)
stableSort(rows, ascending) ==
    IF rows = <<>> THEN <<>>
    ELSE insertStable(stableSort(SubSeq(rows, 1, Len(rows) - 1), ascending),
                      rows[Len(rows)], ascending)

Reverse(q) == [k \in 1..Len(q) |-> q[Len(q) + 1 - k]]

\* a descending sort written as the ascending sort reversed
sortedDataRows_ReverseForDesc(dataRows, ascending) ==
    IF ascending THEN stableSort(dataRows, TRUE) ELSE Reverse(stableSort(dataRows, TRUE))

\* [...dataRows].sort(comparator)
sortedDataRows(dataRows, ascending) == stableSort(dataRows, ascending)

\* the position the editor makes of (line, character): a line past the end
\* is the end of the last line, a character past the end of its line is the
\* end of that line; returned as an offset into the text
offsetAt(lines, line, character) ==
    LET l == IF line >= Len(lines) THEN Len(lines) - 1 ELSE line
        c == IF line >= Len(lines) THEN Len(lineAt(lines, l))
             ELSE IF character > Len(lineAt(lines, l)) THEN Len(lineAt(lines, l))
             ELSE character
        S[k \in 0..l] == IF k = 0 THEN 0 ELSE S[k - 1] + Len(lineAt(lines, k - 1)) + 1
    IN  S[l] + c

\* a range that stops at the start of the last line of the span
editRange_EndLine(startLine, endLine) == <<startLine, 0, endLine, 0>>

\* new vscode.Range(startLine, 0, endLine + 1, 0)
editRange(startLine, endLine) == <<startLine, 0, endLine + 1, 0>>

\* edit.replace(document.uri, range, newText) applied to the document
applyReplace(lines, range, newText) ==
    LET text == join(lines, <<NL>>)
        from == offsetAt(lines, range[1], range[2])
        to == offsetAt(lines, range[3], range[4])
    IN  split(SubSeq(text, 1, from) \o newText \o SubSeq(text, to + 1, Len(text)), NL)

\* saveTable: the document after the edit, and the record of the edit; a
\* TypeError of generateMarkdownTable leaves the document as it is
savedDoc(lines, startLine, endLine, data) ==
    LET markdownTable == generateMarkdownTable(data)
    IN  IF markdownTable = TypeError THEN lines
        ELSE applyReplace(lines, editRange(startLine, endLine), markdownTable \o <<NL>>)

writeRecord(op, lines, startLine, endLine, data) ==
    LET markdownTable == generateMarkdownTable(data)
    IN  IF markdownTable = TypeError THEN [op |-> "TypeError"]
        ELSE [op |-> op, before |-> lines, startLine |-> startLine,
              endLine |-> endLine, out |-> markdownTable]

\* Documents of the provider: an optional line of text, a table (a header,
\* an optional separator, up to MaxDataRows data rows), an optional line of
\* text.  The data rows have first cells that tie once trimmed and
\* lower-cased.

MaxDataRows == 3

LineHeader == <<Pipe, "h", Pipe, "x", Pipe>>
RowB1 == <<Pipe, "b", Pipe, "1", Pipe>>
RowB2 == <<Pipe, "B", Pipe, "2", Pipe>>
RowA == <<Pipe, "a", Pipe, "1", Pipe>>

DataRowLines == {RowB1, RowB2, RowA}

TableDocs ==
    {pre \o <<LineHeader>> \o sep \o rows \o post :
        pre \in {<<>>, <<LineText>>},
        sep \in {<<>>, <<LineSep>>},
        rows \in UNION {[1..n -> DataRowLines] : n \in 0..MaxDataRows},
        post \in {<<>>, <<LineText>>}}

\* Grids a webview posts with "save": the empty grid, a row without cells,
\* one empty cell, one cell, two rows of unequal length, and a grid holding
\* an undefined cell
PostedGrids ==
    {<<>>,
     <<<<>>>>,
     <<<<<<>>>>>>,
     <<<<<<"a">>>>>>,
     <<<<<<"a">>>>, <<<<"a">>, <<>>>>>>,
     <<<<Undefined>>>>}

\* the arguments the lenses of the current document carry
LensArgs(lines) ==
    LET ls == provideCodeLenses(lines)
    IN  {<<ls[k].startLine, ls[k].endLine>> : k \in 1..Len(ls)}

DocInit ==
    /\ doc \in TableDocs
    /\ HostOff
    /\ FmtOff /\ LocOff /\ ScanOff /\ EditOff

\* a sortTable without the test of tableData.length
SortTable_NoGuard(startLine, endLine, ascending) ==
    /\ UNCHANGED <<fmtVars, locVars, scanVars, editVars>>
    /\ LET parsed == parseMarkdownTable(extractTableText(doc, startLine, endLine))
           sortedTableData == <<parsed[1]>> \o sortedDataRows(Tail(parsed), ascending)
       IN  /\ sortRecord' = [op |-> "sort", input |-> parsed,
                             ascending |-> ascending, output |-> sortedTableData]
           /\ doc' = savedDoc(doc, startLine, endLine, sortedTableData)
           /\ lastWrite' = writeRecord("sort", doc, startLine, endLine, sortedTableData)
           /\ UNCHANGED <<panel, openPanels, message>>

\* sortTable(args, ascending) with the arguments of a lens
SortTable(startLine, endLine, ascending) ==
    /\ UNCHANGED <<fmtVars, locVars, scanVars, editVars>>
    /\ LET parsed == parseMarkdownTable(extractTableText(doc, startLine, endLine))
       IN
        IF Len(parsed) <= 1
        THEN /\ message' = "Table has no data rows to sort"
             /\ sortRecord' = [op |-> "nothing", input |-> parsed]
             /\ lastWrite' = NoRecord
             /\ UNCHANGED <<doc, panel, openPanels>>
        ELSE LET headerRow == parsed[1]
                 dataRows == Tail(parsed)
                 sortedTableData == <<headerRow>> \o sortedDataRows(dataRows, ascending)
             IN  /\ sortRecord' = [op |-> "sort", input |-> parsed,
                                   ascending |-> ascending, output |-> sortedTableData]
                 /\ doc' = savedDoc(doc, startLine, endLine, sortedTableData)
                 /\ lastWrite' = writeRecord("sort", doc, startLine, endLine, sortedTableData)
                 /\ UNCHANGED <<panel, openPanels, message>>

\* a webview panel as the list of open panels keeps it
PanelOf(p) == [kind |-> p.kind, startLine |-> p.startLine, endLine |-> p.endLine]

\* this._panel.dispose() / this._panel?.dispose(): the panel _panel refers
\* to, when it is not disposed yet, is the one created last
disposePanel(p, open) ==
    IF p = NoPanel \/ p.disposed THEN [panel |-> p, open |-> open]
    ELSE [panel |-> [p EXCEPT !.disposed = TRUE],
          open |-> SubSeq(open, 1, Len(open) - 1)]

\* createWebviewPanel assigned to this._panel
createPanel(kind, startLine, endLine, open) ==
    LET p == [kind |-> kind, startLine |-> startLine, endLine |-> endLine,
              disposed |-> FALSE]
    IN  [panel |-> p, open |-> Append(open, PanelOf(p))]

\* an editTable that creates the panel without disposing the one before
EditTable_NoDispose(startLine, endLine) ==
    /\ LET c == createPanel("edit", startLine, endLine, openPanels)
       IN  panel' = c.panel /\ openPanels' = c.open
    /\ sortRecord' = NoRecord
    /\ lastWrite' = NoRecord
    /\ UNCHANGED <<doc, message>>
    /\ UNCHANGED <<fmtVars, locVars, scanVars, editVars>>

\* editTable(args): the panel of _panel is disposed, a panel is created and
\* its message handler keeps startLine and endLine
EditTable(startLine, endLine) ==
    /\ LET d == disposePanel(panel, openPanels)
           c == createPanel("edit", startLine, endLine, d.open)
       IN  panel' = c.panel /\ openPanels' = c.open
    /\ sortRecord' = NoRecord
    /\ lastWrite' = NoRecord
    /\ UNCHANGED <<doc, message>>
    /\ UNCHANGED <<fmtVars, locVars, scanVars, editVars>>

\* the "save" message of the open panel k, handled by the handler editTable
\* registered on it: saveTable on the span kept, then this._panel?.dispose()
PanelSave(k, data) ==
    /\ k \in 1..Len(openPanels)
    /\ openPanels[k].kind = "edit"
    /\ doc' = savedDoc(doc, openPanels[k].startLine, openPanels[k].endLine, data)
    /\ lastWrite' = writeRecord("save", doc, openPanels[k].startLine,
                                openPanels[k].endLine, data)
    \* a TypeError leaves the handler before this._panel?.dispose()
    /\ LET d == IF generateMarkdownTable(data) = TypeError
                THEN [panel |-> panel, open |-> openPanels]
                ELSE disposePanel(panel, openPanels)
       IN  panel' = d.panel /\ openPanels' = d.open
    /\ sortRecord' = NoRecord
    /\ UNCHANGED message
    /\ UNCHANGED <<fmtVars, locVars, scanVars, editVars>>

\* the "cancel" message of the open panel k: this._panel?.dispose()
PanelCancel(k) ==
    /\ k \in 1..Len(openPanels)
    /\ LET d == disposePanel(panel, openPanels)
       IN  panel' = d.panel /\ openPanels' = d.open
    /\ sortRecord' = NoRecord
    /\ lastWrite' = NoRecord
    /\ UNCHANGED <<doc, message>>
    /\ UNCHANGED <<fmtVars, locVars, scanVars, editVars>>

DocNext ==
    \/ \E a \in LensArgs(doc) : \E asc \in BOOLEAN : SortTable(a[1], a[2], asc)
    \/ \E a \in LensArgs(doc) : EditTable(a[1], a[2])
    \/ \E k \in 1..Len(openPanels) : \E data \in PostedGrids : PanelSave(k, data)
    \/ \E k \in 1..Len(openPanels) : PanelCancel(k)

SpecDoc == DocInit /\ [][DocNext]_vars

-----------------------------------------------------------------------------
(* The span of a table-like line, extracted and parsed as editTable and   *)
(* sortTable do, on documents of up to MaxSpanLines lines.                *)

MaxSpanLines == 3

LineBars == <<Pipe, Pipe, Pipe>>
LineEmptyCell == <<Pipe, Sp, Pipe>>
LineBareSep == <<Dash, Pipe, Dash>>
LineHalf == <<Sp, Pipe, "a", Sp>>

SpanLineSet ==
    {LineText, LineLonePipe, TextBare, TextSep, TextSepColon,
     LineBars, LineEmptyCell, LineBareSep, LineHalf}

SpanDocs == UNION {[1..n -> SpanLineSet] : n \in 1..MaxSpanLines}

SpanInit ==
    /\ doc \in SpanDocs
    /\ cur = -1
    /\ span = <<>>
    /\ FmtOff /\ ScanOff /\ HostOff /\ EditOff

\* extractTableText and parseMarkdownTable on the span found
ParseSpan ==
    /\ cur # -1
    /\ fmtPc = "off"
    /\ text1' = extractTableText(doc, span[1], span[2])
    /\ G2' = parseMarkdownTable(extractTableText(doc, span[1], span[2]))
    /\ fmtPc' = "parsed"
    /\ UNCHANGED <<G, text2>>
    /\ UNCHANGED <<doc, locVars, scanVars, hostVars, editVars>>

SpanNext == (\E i \in 0..(Len(doc) - 1) : Locate(i)) \/ ParseSpan

SpecSpan == SpanInit /\ [][SpanNext]_vars

-----------------------------------------------------------------------------
(* The provider with createTable: every command and every message of the  *)
(* panels, on documents of up to MaxDocLines lines.                       *)

MaxDocLines == 5

\* insertNewTable: the document after the edit at the position (line,
\* character) of the cursor; a TypeError of generateMarkdownTable leaves the
\* document as it is
insertNewTable(lines, line, character, data) ==
    LET markdownTable == generateMarkdownTable(data)
        currentLine == lineAt(lines, line)
        isLineEmpty == trim(currentLine) = <<>>
    IN  IF markdownTable = TypeError THEN lines
        ELSE IF isLineEmpty
        THEN applyReplace(lines, <<line, 0, line, Len(currentLine)>>,
                          markdownTable \o <<NL, NL>>)
        ELSE applyReplace(lines, <<line, character, line, character>>,
                          <<NL, NL>> \o markdownTable \o <<NL, NL>>)

\* what vscode.window.activeTextEditor is when createTable runs: none, or
\* an editor on a document of this language
ActiveEditors == {"none", "markdown", "mdx", "plaintext"}

NoEditorMessage == "No active editor found"
NotMarkdownMessage == "This command only works in Markdown files"

\* createTable(): an error message and no panel without a Markdown editor;
\* else the panel of _panel is disposed and a panel is created
CreateTable(activeEditor) ==
    /\ IF activeEditor = "none"
       THEN message' = NoEditorMessage /\ UNCHANGED <<panel, openPanels>>
       ELSE IF activeEditor \notin {"markdown", "mdx"}
       THEN message' = NotMarkdownMessage /\ UNCHANGED <<panel, openPanels>>
       ELSE /\ LET d == disposePanel(panel, openPanels)
                   c == createPanel("create", -1, -1, d.open)
               IN  panel' = c.panel /\ openPanels' = c.open
            /\ UNCHANGED message
    /\ sortRecord' = NoRecord
    /\ lastWrite' = NoRecord
    /\ UNCHANGED doc
    /\ UNCHANGED <<fmtVars, locVars, scanVars, editVars>>

\* the "save" message of the open panel k, handled by the handler
\* createTable registered on it: insertNewTable at the cursor, then
\* this._panel?.dispose()
PanelInsert(k, data, line, character) ==
    /\ k \in 1..Len(openPanels)
    /\ openPanels[k].kind = "create"
    /\ Len(insertNewTable(doc, line, character, data)) <= MaxDocLines
    /\ doc' = insertNewTable(doc, line, character, data)
    /\ lastWrite' = IF generateMarkdownTable(data) = TypeError
                    THEN [op |-> "TypeError"]
                    ELSE [op |-> "insert", before |-> doc, line |-> line,
                          character |-> character,
                          out |-> generateMarkdownTable(data)]
    /\ LET d == IF generateMarkdownTable(data) = TypeError
                THEN [panel |-> panel, open |-> openPanels]
                ELSE disposePanel(panel, openPanels)
       IN  panel' = d.panel /\ openPanels' = d.open
    /\ sortRecord' = NoRecord
    /\ UNCHANGED message
    /\ UNCHANGED <<fmtVars, locVars, scanVars, editVars>>

\* the positions of the cursor: the start or the end of a line
Cursors(lines) ==
    {<<l, c>> : l \in 0..(Len(lines) - 1), c \in 0..MaxDocLines} \cap
    UNION {{<<l, 0>>, <<l, Len(lineAt(lines, l))>>} : l \in 0..(Len(lines) - 1)}

\* the grids the panels of these sessions post with "save": a table of one
\* cell, the empty grid and a grid holding an undefined cell
SessionGrids == {<<<<<<"a">>>>>>, <<>>, <<<<Undefined>>>>}

PanelDocs ==
    {<<LineHeader, RowB1, RowA>>, <<LineHeader, LineSep, RowA>>,
     <<LineText>>, <<<<>>>>}

PanelInit ==
    /\ doc \in PanelDocs
    /\ HostOff
    /\ FmtOff /\ LocOff /\ ScanOff /\ EditOff

PanelNext ==
    \/ \E a \in LensArgs(doc) : \E asc \in BOOLEAN : SortTable(a[1], a[2], asc)
    \/ \E a \in LensArgs(doc) : EditTable(a[1], a[2])
    \/ \E e \in ActiveEditors : CreateTable(e)
    \/ \E k \in 1..Len(openPanels) : \E data \in SessionGrids : PanelSave(k, data)
    \/ \E k \in 1..Len(openPanels) : \E data \in SessionGrids :
            \E pos \in Cursors(doc) : PanelInsert(k, data, pos[1], pos[2])
    \/ \E k \in 1..Len(openPanels) : PanelCancel(k)

SpecPanel == PanelInit /\ [][PanelNext]_vars

-----------------------------------------------------------------------------
(* The webview script (getWebviewContent): the grid editor.                *)
(* Row and column indices are 0-based as in the source; -1 is "none".      *)
(* The handlers of the rendered table exist for every row and every cell   *)
(* of row 0, as they do when renderTable completes.                        *)

rowAt(data, i) == data[i + 1]

\* Array.prototype.splice(start, 1) on a sequence: the element removed (or
\* undefined when there is none) and the rest
spliceOut(q, start) ==
    IF start < Len(q)
    THEN [removed |-> q[start + 1],
          rest |-> SubSeq(q, 1, start) \o SubSeq(q, start + 2, Len(q))]
    ELSE [removed |-> Undefined, rest |-> q]

\* Array.prototype.splice(start, 0, item): start past the end is the end
spliceIn(q, start, item) ==
    LET at == IF start > Len(q) THEN Len(q) ELSE start
    IN  SubSeq(q, 1, at) \o <<item>> \o SubSeq(q, at + 1, Len(q))

\* Array.prototype.pop on a row: an empty row stays empty
popped(q) == IF Len(q) = 0 THEN q ELSE SubSeq(q, 1, Len(q) - 1)

Str(chars) == chars

HeaderDefault == <<Str(<<"H", "e", "a", "d", "e", "r", Sp, "1">>),
                   Str(<<"H", "e", "a", "d", "e", "r", Sp, "2">>)>>
CellDefault == <<Str(<<"C", "e", "l", "l", Sp, "1">>),
                 Str(<<"C", "e", "l", "l", Sp, "2">>)>>

\* renderTable: an empty grid is replaced before the table is drawn
renderTable(data) == IF Len(data) = 0 THEN <<HeaderDefault, CellDefault>> ELSE data

\* createTable: defaultTableData
defaultTableData == <<<<<<>>, <<>>, <<>>>>, <<<<>>, <<>>, <<>>>>>>

\* Bound of the editor: "Add Row" and "Add Column" stop when the grid would
\* measure more than MaxSize (its rows plus twice its widest row)
MaxSize == 6

Size(data) == Len(data) + 2 * maxColsOf(data)

\* Table texts the editor is opened on: a header and more rows, each row
\* of one cell or more (so the rows may be ragged), of size up to
\* MaxSize; the cell of row r and column i holds the two characters
\* RowName[r], ColName[i]; the separator follows the header
RowName == <<"a", "b", "c", "d", "e", "f", "g", "h">>
ColName == <<"1", "2", "3", "4", "5", "6", "7", "8">>

ShapeSet ==
    UNION {[1..r -> 1..c] : <<r, c>> \in {rc \in (1..MaxSize) \X (1..MaxSize) :
                                              rc[1] + 2 * rc[2] <= MaxSize}}

rawLine(cells) == <<Pipe>> \o join(cells, <<Pipe>>) \o <<Pipe>>

textOfShape(shape) ==
    LET line(r) == rawLine([i \in 1..shape[r] |-> <<RowName[r], ColName[i]>>])
        sep == rawLine([i \in 1..shape[1] |-> <<Dash>>])
    IN  join(<<line(1), sep>> \o [r \in 1..(Len(shape) - 1) |-> line(r + 1)], <<NL>>)

EditTexts == {textOfShape(shape) : shape \in ShapeSet}

\* the grid the script starts with: the JSON of the parsed table (editTable)
\* or of the default table (createTable), then renderTable()
InitialGrids ==
    {renderTable(parseMarkdownTable(t)) : t \in EditTexts}
        \cup {renderTable(defaultTableData)}

EditInit ==
    /\ tableData \in InitialGrids
    /\ selectedRowIndex = -1
    /\ selectedColumnIndex = -1
    /\ lastOp = "open"
    /\ posted = NotPosted
    /\ doc = <<>> /\ FmtOff /\ LocOff /\ ScanOff /\ HostOff

EditFrame == UNCHANGED <<doc, fmtVars, locVars, scanVars, hostVars>>

\* the panel is open: no "save" has been handled to the end
Open == posted \in {NotPosted, TypeError}

\* an addRow that always takes the fallback count of columns
addRow_FallbackCount ==
    /\ Open
    /\ Size(tableData) + 1 <= MaxSize
    /\ tableData' = renderTable(Append(tableData, <<<<>>, <<>>>>))
    /\ lastOp' = "addRow"
    /\ UNCHANGED <<selectedRowIndex, selectedColumnIndex, posted>>
    /\ EditFrame

addRow ==
    /\ Open
    /\ LET colCount == IF Len(tableData) > 0 THEN Len(rowAt(tableData, 0)) ELSE 2
           newRow == [i \in 1..colCount |-> <<>>]
       IN  /\ Size(tableData) + 1 <= MaxSize
           /\ tableData' = renderTable(Append(tableData, newRow))
    /\ lastOp' = "addRow"
    /\ UNCHANGED <<selectedRowIndex, selectedColumnIndex, posted>>
    /\ EditFrame

addColumn ==
    /\ Open /\ Size(tableData) + 2 <= MaxSize
    /\ tableData' = renderTable(IF Len(tableData) = 0 THEN <<HeaderDefault>>
                                ELSE [r \in 1..Len(tableData) |-> Append(tableData[r], <<>>)])
    /\ lastOp' = "addColumn"
    /\ UNCHANGED <<selectedRowIndex, selectedColumnIndex, posted>>
    /\ EditFrame

\* a removeLastRow without clearSelection()
removeLastRow_KeepSelection ==
    /\ Open
    /\ IF Len(tableData) > 1
       THEN tableData' = renderTable(popped(tableData))
       ELSE UNCHANGED tableData
    /\ lastOp' = "removeLastRow"
    /\ UNCHANGED <<selectedRowIndex, selectedColumnIndex, posted>>
    /\ EditFrame

\* a removeLastRow that pops without looking at the number of rows
removeLastRow_NoGuard ==
    /\ Open
    /\ tableData' = renderTable(popped(tableData))
    /\ selectedRowIndex' = -1
    /\ selectedColumnIndex' = -1
    /\ lastOp' = "removeLastRow"
    /\ UNCHANGED posted
    /\ EditFrame

removeLastRow ==
    /\ Open
    /\ IF Len(tableData) > 1
       THEN /\ tableData' = renderTable(popped(tableData))
            /\ selectedRowIndex' = -1
            /\ selectedColumnIndex' = -1
       ELSE UNCHANGED <<tableData, selectedRowIndex, selectedColumnIndex>>
    /\ lastOp' = "removeLastRow"
    /\ UNCHANGED posted
    /\ EditFrame

removeLastColumn ==
    /\ Open
    /\ IF Len(tableData) > 0 /\ Len(rowAt(tableData, 0)) > 1
       THEN /\ tableData' = renderTable([r \in 1..Len(tableData) |-> popped(tableData[r])])
            /\ selectedRowIndex' = -1
            /\ selectedColumnIndex' = -1
       ELSE UNCHANGED <<tableData, selectedRowIndex, selectedColumnIndex>>
    /\ lastOp' = "removeLastColumn"
    /\ UNCHANGED posted
    /\ EditFrame

\* a moveRow that exchanges the two rows
moveRow_Swap(fromIndex, toIndex) ==
    /\ Open /\ fromIndex # toIndex
    /\ tableData' = [tableData EXCEPT ![fromIndex + 1] = tableData[toIndex + 1],
                                      ![toIndex + 1] = tableData[fromIndex + 1]]
    /\ selectedRowIndex' = -1
    /\ selectedColumnIndex' = -1
    /\ lastOp' = "moveRow"
    /\ UNCHANGED posted
    /\ EditFrame

\* the drop handler of a row: draggedRowIndex is a row of the table and is
\* not the row dropped on
moveRow(fromIndex, toIndex) ==
    /\ Open /\ fromIndex # toIndex
    /\ LET cut == spliceOut(tableData, fromIndex)
       IN  tableData' = renderTable(spliceIn(cut.rest, toIndex, cut.removed))
    /\ selectedRowIndex' = -1
    /\ selectedColumnIndex' = -1
    /\ lastOp' = "moveRow"
    /\ UNCHANGED posted
    /\ EditFrame

\* the drop handler of a header cell: both indices are cells of row 0
moveColumn(fromIndex, toIndex) ==
    /\ Open /\ fromIndex # toIndex
    /\ tableData' = renderTable([r \in 1..Len(tableData) |->
                        LET cut == spliceOut(tableData[r], fromIndex)
                        IN  spliceIn(cut.rest, toIndex, cut.removed)])
    /\ selectedRowIndex' = -1
    /\ selectedColumnIndex' = -1
    /\ lastOp' = "moveColumn"
    /\ UNCHANGED posted
    /\ EditFrame

\* a click on the drag handle in the first cell of a row
selectRow(rowIndex) ==
    /\ Open
    /\ selectedRowIndex' = rowIndex
    /\ selectedColumnIndex' = -1
    /\ lastOp' = "selectRow"
    /\ UNCHANGED <<tableData, posted>>
    /\ EditFrame

\* a click on a header cell
selectColumn(columnIndex) ==
    /\ Open
    /\ selectedRowIndex' = -1
    /\ selectedColumnIndex' = columnIndex
    /\ lastOp' = "selectColumn"
    /\ UNCHANGED <<tableData, posted>>
    /\ EditFrame

\* Escape, a click elsewhere, or the focus of a cell's input
clearSelection ==
    /\ Open
    /\ selectedRowIndex' = -1
    /\ selectedColumnIndex' = -1
    /\ lastOp' = "clearSelection"
    /\ UNCHANGED <<tableData, posted>>
    /\ EditFrame

\* Backspace with a row selected
deleteSelectedRow ==
    /\ Open /\ selectedRowIndex # -1
    /\ IF selectedRowIndex # -1 /\ Len(tableData) > 1
       THEN IF selectedRowIndex = 0
            THEN UNCHANGED <<tableData, selectedRowIndex, selectedColumnIndex>>
            ELSE /\ tableData' = renderTable(spliceOut(tableData, selectedRowIndex).rest)
                 /\ selectedRowIndex' = -1
                 /\ selectedColumnIndex' = -1
       ELSE UNCHANGED <<tableData, selectedRowIndex, selectedColumnIndex>>
    /\ lastOp' = "deleteSelectedRow"
    /\ UNCHANGED posted
    /\ EditFrame

\* Backspace with no row and a column selected
deleteSelectedColumn ==
    /\ Open /\ selectedRowIndex = -1 /\ selectedColumnIndex # -1
    /\ IF selectedColumnIndex # -1 /\ Len(tableData) > 0 /\ Len(rowAt(tableData, 0)) > 1
       THEN /\ tableData' = renderTable([r \in 1..Len(tableData) |->
                                spliceOut(tableData[r], selectedColumnIndex).rest])
            /\ selectedRowIndex' = -1
            /\ selectedColumnIndex' = -1
       ELSE UNCHANGED <<tableData, selectedRowIndex, selectedColumnIndex>>
    /\ lastOp' = "deleteSelectedColumn"
    /\ UNCHANGED posted
    /\ EditFrame

\* "Save": the grid is posted and the extension formats it (saveTable or
\* insertNewTable); the panel is disposed unless the formatter threw
saveTable ==
    /\ Open
    /\ posted' = generateMarkdownTable(tableData)
    /\ lastOp' = "saveTable"
    /\ UNCHANGED <<tableData, selectedRowIndex, selectedColumnIndex>>
    /\ EditFrame

EditNext ==
    \/ addRow
    \/ addColumn
    \/ removeLastRow
    \/ removeLastColumn
    \/ \E f, t \in 0..(Len(tableData) - 1) : moveRow(f, t)
    \/ \E f, t \in 0..(Len(rowAt(tableData, 0)) - 1) : moveColumn(f, t)
    \/ \E r \in 0..(Len(tableData) - 1) : Len(rowAt(tableData, r)) >= 1 /\ selectRow(r)
    \/ \E c \in 0..(Len(rowAt(tableData, 0)) - 1) : selectColumn(c)
    \/ clearSelection
    \/ deleteSelectedRow
    \/ deleteSelectedColumn
    \/ saveTable

SpecEdit == EditInit /\ [][EditNext]_vars

-----------------------------------------------------------------------------
(* Properties of the formatter pipeline (under SpecFmt) *)

Rows(g) == 1..Len(g)
Cols(g, r) == 1..Len(g[r])

NonRagged(g) == \A r \in Rows(g) : Len(g[r]) = Len(g[1])
NoPipe(g) == \A r \in Rows(g) : \A i \in Cols(g, r) : ~includes(g[r][i], Pipe)
NoLineBreak(g) == \A r \in Rows(g) : \A i \in Cols(g, r) : ~includes(g[r][i], NL)
Trimmed(g) == \A r \in Rows(g) : \A i \in Cols(g, r) : trim(g[r][i]) = g[r][i]

\* the grid has the shape of g and holds g's cells trimmed
SameTrimmedCells(g, h) ==
    /\ Len(h) = Len(g)
    /\ \A r \in Rows(g) :
          /\ Len(h[r]) = Len(g[r])
          /\ \A i \in Cols(g, r) : h[r][i] = trim(g[r][i])

\* C1: for every non-ragged grid with at least one row and one column whose
\* cells hold no pipe character, parsing the formatted grid gives back a grid
\* of the same shape whose cells are the trimmed cells of the input.
C1_RoundTrip ==
    (/\ fmtPc = "parsed"
     /\ Len(G) >= 1 /\ Len(G[1]) >= 1
     /\ NonRagged(G) /\ NoPipe(G))
        => SameTrimmedCells(G, G2)

\* C6 as stated: for every grid, formatting the re-parsed text gives the
\* first formatting again, byte for byte.
C6_IdempotentAnyCells == fmtPc = "reformatted" => text2 = text1

\* C6 amended: for every grid (ragged or not) whose cells are trimmed and
\* hold no pipe and no line break, as the cells of every parsed grid are,
\* formatting the re-parsed text gives the first formatting byte for byte.
C6_IdempotentCleanCells ==
    (fmtPc = "reformatted" /\ Trimmed(G) /\ NoPipe(G) /\ NoLineBreak(G))
        => text2 = text1

\* a ragged grid of clean cells, one of them not empty, formatted twice
C6_Witness ==
    /\ fmtPc = "reformatted"
    /\ Trimmed(G) /\ NoPipe(G) /\ NoLineBreak(G)
    /\ Len(G) >= 2 /\ ~NonRagged(G)
    /\ \E r \in Rows(G) : \E i \in Cols(G, r) : G[r][i] # <<>>
    /\ text2 = text1 /\ text1 # <<>>

\* the width the claim gives column j: the longest cell of the column
ColumnWidth(g, j) == Max({0} \cup {Len(g[r][j]) : r \in {q \in Rows(g) : j <= Len(g[q])}})

\* the cell text followed by spaces up to the width w
PaddedTo(cell, w, out) ==
    /\ Len(out) = w
    /\ SubSeq(out, 1, Len(cell)) = cell
    /\ \A k \in (Len(cell) + 1)..w : out[k] = Sp

\* the emitted line is "| " c1 " | " ... " | " cn " |" with cell j of width
\* w_j at its place, each satisfying P(j, emitted cell j)
LineOfCells(line, g, n, P(_, _)) ==
    LET start(j) == 3 + (j - 1) * 3
                      + (IF j = 1 THEN 0
                         ELSE LET S[k \in 0..(j - 1)] ==
                                      IF k = 0 THEN 0 ELSE S[k - 1] + ColumnWidth(g, k)
                              IN  S[j - 1])
        total == IF n = 0 THEN 4 ELSE start(n) + ColumnWidth(g, n) + 1
    IN  /\ Len(line) = total
        /\ SubSeq(line, 1, 2) = <<Pipe, Sp>>
        /\ SubSeq(line, total - 1, total) = <<Sp, Pipe>>
        /\ \A j \in 1..n :
              /\ P(j, SubSeq(line, start(j), start(j) + ColumnWidth(g, j) - 1))
              /\ j < n => SubSeq(line, start(j) + ColumnWidth(g, j),
                                  start(j) + ColumnWidth(g, j) + 2) = <<Sp, Pipe, Sp>>

\* C7: for every non-empty grid the output has rows + 1 lines of one common
\* length and no trailing line break; the line of a row holds each cell
\* (a missing cell counting as empty) right-padded with spaces to the
\* longest cell of its column, and the second line holds for each column a
\* run of that many dashes.
C7_Padding ==
    (fmtPc = "formatted" /\ Len(G) >= 1) =>
        LET out == split(text1, NL)
            n == maxColsOf(G)
            cellAt(r, j) == IF j <= Len(G[r]) THEN G[r][j] ELSE <<>>
            lineOfRow(r) == IF r = 1 THEN out[1] ELSE out[r + 1]
        IN  /\ Len(out) = Len(G) + 1
            /\ \A k \in 1..Len(out) : Len(out[k]) = Len(out[1])
            /\ text1[Len(text1)] # NL
            /\ \A r \in Rows(G) :
                  LineOfCells(lineOfRow(r), G, n,
                              LAMBDA j, c : PaddedTo(cellAt(r, j), ColumnWidth(G, j), c))
            /\ LineOfCells(out[2], G, n,
                            LAMBDA j, c : c = repeat(Dash, ColumnWidth(G, j)))

-----------------------------------------------------------------------------
(* Properties of the span locator (under SpecLocate) and of the scan       *)
(* (under SpecScan)                                                        *)

TableLike(lines, i) == i \in 0..(Len(lines) - 1) /\ isTableRow(lineAt(lines, i))

\* [s, e] is a maximal run of table-like lines
MaximalRun(lines, s, e) ==
    /\ 0 <= s /\ s <= e /\ e <= Len(lines) - 1
    /\ \A k \in s..e : TableLike(lines, k)
    /\ ~TableLike(lines, s - 1)
    /\ ~TableLike(lines, e + 1)

SpecExampleDoc == <<LineText, LineAB, LineSep, Line12, LineText>>

\* C8: for every index i of a table-like line the locator returns
\* start <= i <= end, the maximal run of table-like lines around i; the
\* example document gives 1..3 and an isolated table-like line gives i..i.
C8_SpanLocator ==
    cur # -1 =>
        /\ span[1] <= cur /\ cur <= span[2]
        /\ MaximalRun(doc, span[1], span[2])
        /\ (doc = SpecExampleDoc => span = <<1, 3>>)
        /\ (~TableLike(doc, cur - 1) /\ ~TableLike(doc, cur + 1) => span = <<cur, cur>>)

\* the locator asked from the last row of the example table
C8_Witness == doc = SpecExampleDoc /\ cur = 3 /\ span = <<1, 3>>

\* the spans of the lenses, one per group of three
LensSpans(ls) == [k \in 1..(Len(ls) \div 3) |-> <<ls[3 * k].startLine, ls[3 * k].endLine>>]

LensesExact(lines, ls) ==
    LET spans == LensSpans(ls)
    IN  /\ Len(ls) = 3 * Len(spans)
        /\ \A k \in 1..Len(spans) :
              /\ MaximalRun(lines, spans[k][1], spans[k][2])
              /\ ls[3 * k - 2].title = "Edit"
              /\ ls[3 * k - 1].title = "Sort (A-Z)"
              /\ ls[3 * k].title = "Sort (Z-A)"
              /\ \A d \in 0..2 :
                    /\ ls[3 * k - d].startLine = spans[k][1]
                    /\ ls[3 * k - d].endLine = spans[k][2]
        \* increasing line order, pairwise disjoint, each run once
        /\ \A k \in 1..(Len(spans) - 1) : spans[k][2] < spans[k + 1][1]
        \* no table-like line outside every span
        /\ \A i \in 0..(Len(lines) - 1) :
              TableLike(lines, i) =>
                  \E k \in 1..Len(spans) : spans[k][1] <= i /\ i <= spans[k][2]

\* C9: the scan terminates (every iteration moves i forward, i never passes
\* the end of the document, and the loop can always take its next step
\* until it returns), and the lenses it returns are Edit, Sort (A-Z) and
\* Sort (Z-A) with one common span for exactly the maximal runs of
\* table-like lines, each run once, in increasing line order.
C9_Detection ==
    /\ [](scanPc = "done" => LensesExact(doc, codeLenses))
    /\ [](scanPc = "loop" => (scanI <= Len(doc) /\ ENABLED ScanNext))
    /\ [][scanPc = "loop" => (scanI' > scanI \/ scanPc' = "done")]_vars

\* a finished scan of a document with two tables, the first of several rows
C9_Witness ==
    /\ scanPc = "done"
    /\ Len(codeLenses) = 6
    /\ codeLenses[1].endLine > codeLenses[1].startLine

-----------------------------------------------------------------------------
(* Properties of sortTable and saveTable (under SpecDoc) *)

SameKey(a, b) == localeCompare(sortValue(a), sortValue(b)) = 0

\* C2: the grid sortTable hands to saveTable (and whose formatting it writes)
\* is row 0 of the parsed grid followed by a permutation of the other rows,
\* ordered by the trimmed, lower-cased first cell (non-decreasing when
\* ascending, non-increasing when descending), rows of equal key keeping
\* their original relative order in both directions.
C2_SortByFirstColumn ==
    sortRecord.op = "sort" =>
        LET in == sortRecord.input
            out == sortRecord.output
            asc == sortRecord.ascending
            n == Len(in)
        IN  /\ n > 1
            /\ Len(out) = n
            /\ out[1] = in[1]
            /\ \E p \in [2..n -> 2..n] :
                  /\ \A j, k \in 2..n : p[j] = p[k] => j = k
                  /\ \A k \in 2..n : out[k] = in[p[k]]
                  /\ \A j, k \in 2..n :
                        (j < k /\ SameKey(out[j], out[k])) => p[j] < p[k]
            /\ \A k \in 2..(n - 1) :
                  LET c == localeCompare(sortValue(out[k]), sortValue(out[k + 1]))
                  IN  IF asc THEN c <= 0 ELSE c >= 0
            /\ lastWrite.op = "sort"
            /\ lastWrite.out = generateMarkdownTable(out)

\* a descending sort that moved rows and met two different rows of one key
C2_Witness ==
    /\ sortRecord.op = "sort"
    /\ ~sortRecord.ascending
    /\ sortRecord.output # sortRecord.input
    /\ \E j, k \in 2..Len(sortRecord.input) :
          /\ j < k
          /\ sortRecord.input[j] # sortRecord.input[k]
          /\ SameKey(sortRecord.input[j], sortRecord.input[k])

Written == lastWrite.op \in {"sort", "save"}

LinesBefore == SubSeq(lastWrite.before, 1, lastWrite.startLine)
LinesAfter == SubSeq(lastWrite.before, lastWrite.endLine + 2, Len(lastWrite.before))

\* C10 as stated: a save or a sort applied to [start, end] replaces exactly
\* the lines start..end by the lines of the formatter's output; the lines
\* before start and after end stay, in their order.
C10_WriteBackFrame ==
    Written => doc = LinesBefore \o split(lastWrite.out, NL) \o LinesAfter

\* C10 amended: the lines start..end are replaced by the lines of the
\* formatter's output, followed by one empty line when end is the last line
\* of the document (the text written ends with a line break); the lines
\* before start and after end stay, in their order.
C10_WriteBackFrameEof ==
    Written =>
        doc = LinesBefore \o split(lastWrite.out, NL)
                \o (IF lastWrite.endLine + 1 = Len(lastWrite.before)
                    THEN <<<<>>>> ELSE LinesAfter)

\* a sort that changed a table with a line before it and a line after it
C10_Witness ==
    /\ lastWrite.op = "sort"
    /\ lastWrite.startLine > 0
    /\ lastWrite.endLine + 1 < Len(lastWrite.before)
    /\ doc # lastWrite.before

-----------------------------------------------------------------------------
(* Properties of the grid editor (under SpecEdit) *)

RowRemovers == {"removeLastRow", "deleteSelectedRow"}

\* C3: in every state of an edit session the grid has at least one row;
\* a removeLastRow or a deleteSelectedRow leaves the row that was at index 0
\* at index 0 and removes at most one row; removeLastRow on a 1-row grid
\* leaves the grid unchanged.
C3_HeaderRow ==
    /\ [](Len(tableData) >= 1)
    /\ [][lastOp' \in RowRemovers =>
            /\ Len(tableData') >= Len(tableData) - 1
            /\ Len(tableData') >= 1
            /\ rowAt(tableData', 0) = rowAt(tableData, 0)]_vars
    /\ [][(lastOp' = "removeLastRow" /\ Len(tableData) = 1) =>
            tableData' = tableData]_vars

\* removeLastRow was invoked on a 1-row grid with its row selected: the
\* selection is still there, so nothing was removed
C3_Witness ==
    /\ lastOp = "removeLastRow"
    /\ Len(tableData) = 1
    /\ selectedRowIndex = 0

OneCellRows(data) == \A r \in Rows(data) : Len(data[r]) = 1

\* C4: in every state of an edit session every row of the grid has at least
\* one cell; removeLastColumn on a grid whose rows have exactly one cell each
\* leaves the grid unchanged.
C4_ColumnSurvives ==
    /\ [](\A r \in Rows(tableData) : Len(tableData[r]) >= 1)
    /\ [][(lastOp' = "removeLastColumn" /\ OneCellRows(tableData)) =>
            tableData' = tableData]_vars

\* C5: in every state of an edit session every cell of the grid is a string
\* and the save step's generateMarkdownTable raised no error; the grid with
\* zero rows yields the empty string.
C5_FormattingTotal ==
    /\ \A r \in Rows(tableData) : \A c \in Cols(tableData, r) :
            IsString(tableData[r][c])
    /\ posted # TypeError
    /\ generateMarkdownTable(<<>>) = <<>>

-----------------------------------------------------------------------------
(* Properties of the parser on table texts (under SpecParse) *)

Parsed == fmtPc \in {"parsed", "reformatted"}

\* only whitespace, pipe, colon and hyphen characters, and one at least
SeparatorPattern(line) ==
    /\ line # <<>>
    /\ \A i \in 1..Len(line) : line[i] \in {Sp, Pipe, Colon, Dash}

\* the non-blank lines of the text, trimmed, and the positions (0-based) of
\* the lines the rows of the grid were produced from
TextLines == [k \in 1..Len(nonBlankLines(text1)) |-> trim(nonBlankLines(text1)[k])]
Origins == parseOrigins(nonBlankLines(text1))
OriginSet == {Origins[j] : j \in 1..Len(Origins)}
RowsComeFromOrigins ==
    G2 = [j \in 1..Len(Origins) |-> lineCells(TextLines[Origins[j] + 1])]

\* C11 as stated: no row of the parsed grid was produced from a line that
\* matches the separator pattern, whatever the position of the line.
C11_NoSeparatorRowAnywhere ==
    Parsed =>
        /\ RowsComeFromOrigins
        /\ \A i \in OriginSet : ~SeparatorPattern(TextLines[i + 1])

\* C11 amended: no row of the parsed grid was produced from a line at
\* position 1 (the second non-blank line) that matches the separator
\* pattern; a line at any other position produces a row exactly when it has
\* a cell, also when it matches the separator pattern.
C11_NoSeparatorRowAtOne ==
    Parsed =>
        /\ RowsComeFromOrigins
        /\ \A i \in 0..(Len(TextLines) - 1) :
            IF i = 1 /\ SeparatorPattern(TextLines[i + 1])
            THEN i \notin OriginSet
            ELSE i \in OriginSet <=> Len(lineCells(TextLines[i + 1])) > 0

\* a parsed text whose second line is a separator with a colon and whose
\* third line, a separator line too, became a row
C11_Witness ==
    /\ Parsed
    /\ Len(TextLines) = 3
    /\ TextLines[2] = TextSepColon
    /\ TextLines[3] = TextSep
    /\ Len(G2) = 2
    /\ G2[2] = <<<<Dash>>, <<Dash>>>>

-----------------------------------------------------------------------------
(* Properties of the provider's commands (under SpecDoc), continued *)

NoDataRowsMessage == "Table has no data rows to sort"

\* C12: a sortTable whose span parses to a grid of zero or one row reports
\* that there are no data rows to sort and writes nothing: the document is
\* unchanged.
C12_SortNothing ==
    [][(sortRecord' # NoRecord /\ Len(sortRecord'.input) <= 1) =>
            /\ message' = NoDataRowsMessage
            /\ doc' = doc
            /\ lastWrite' = NoRecord]_vars

\* a sort was asked for a table that is a header and a separator only
C12_Witness ==
    /\ sortRecord # NoRecord
    /\ Len(sortRecord.input) = 1
    /\ message = NoDataRowsMessage
    /\ \E k \in 1..(Len(doc) - 1) : doc[k] = LineHeader /\ doc[k + 1] = LineSep
    /\ \A k \in 1..Len(doc) : doc[k] \notin DataRowLines

-----------------------------------------------------------------------------
(* Properties of the edit sessions (under SpecPanel) *)

PanelIsOpen == panel # NoPanel /\ ~panel.disposed

\* C13: after any sequence of editTable, createTable, save and cancel at
\* most one panel is open, and it is the panel created last (the one before
\* was disposed when it was created); a save that wrote to the document came
\* from the open panel and leaves no panel open, so no disposed panel writes.
C13_SingleSession ==
    /\ [](Len(openPanels) <= 1)
    /\ [](openPanels = IF PanelIsOpen THEN <<PanelOf(panel)>> ELSE <<>>)
    /\ [][lastWrite'.op \in {"save", "insert"} =>
            Len(openPanels) = 1 /\ openPanels' = <<>>]_vars

\* an edit session is open after createTable was refused once and an
\* earlier command or session changed the document
C13_Witness ==
    /\ PanelIsOpen
    /\ panel.kind = "edit"
    /\ openPanels = <<PanelOf(panel)>>
    /\ message = NotMarkdownMessage
    /\ doc \notin PanelDocs

-----------------------------------------------------------------------------
(* Properties of the parser on written lines (under SpecParse) *)

\* C14: a line written for the cells c1..cn (trimmed, without pipes, c1 and
\* cn not empty) with a leading pipe, a trailing pipe, both or neither, and
\* any spaces around the cells, parses to exactly c1..cn.
C14_OuterPipesOptional ==
    (Parsed /\ G # <<>>) =>
        /\ Trimmed(G) /\ NoPipe(G)
        /\ G2 = G

\* "a | b", without outer pipes, parsed to the cells a and b
C14_Witness ==
    /\ Parsed
    /\ text1 = <<"a", Sp, Pipe, Sp, "b">>
    /\ G = <<<<<<"a">>, <<"b">>>>>>
    /\ G2 = G

-----------------------------------------------------------------------------
(* Properties of the grid editor (under SpecEdit), continued *)

\* the number of cells of the row that are x
CountOf(row, x) == Cardinality({i \in 1..Len(row) : row[i] = x})

SameCells(row, moved) ==
    /\ Len(moved) = Len(row)
    /\ \A i \in 1..Len(row) : CountOf(moved, row[i]) = CountOf(row, row[i])

\* C15: a moveColumn(from, to) with from and to indices of row 0 leaves every
\* row that has no cell at index from as it is, and keeps the length and the
\* cells of every row that has one.
C15_MoveColumnRagged ==
    [][lastOp' = "moveColumn" =>
        \E from, to \in 0..(Len(rowAt(tableData, 0)) - 1) :
            /\ from # to
            /\ Len(tableData') = Len(tableData)
            /\ \A r \in Rows(tableData) :
                IF from < Len(tableData[r])
                THEN SameCells(tableData[r], tableData'[r])
                ELSE tableData'[r] = tableData[r]]_vars

\* the rows of the grid without the row at index i (0-based)
WithoutRow(data, i) == SubSeq(data, 1, i) \o SubSeq(data, i + 2, Len(data))

\* C16: for every grid of n rows and all indices from # to in 0..n-1,
\* moveRow(from, to) gives a grid of n rows whose row at index to is the row
\* that was at index from, the other rows being the same rows in the same
\* order (the header at index 0 may be the row moved).
C16_MoveRow ==
    Open =>
        \A from, to \in 0..(Len(tableData) - 1) :
            from # to =>
                ENABLED (/\ moveRow(from, to)
                         /\ Len(tableData') = Len(tableData)
                         /\ rowAt(tableData', to) = rowAt(tableData, from)
                         /\ WithoutRow(tableData', to) = WithoutRow(tableData, from))

\* the rows a, b, c, d after row 2 was moved to index 0: c, a, b, d
C16_Witness ==
    /\ lastOp = "moveRow"
    /\ tableData = <<<<<<"c", "1">>>>, <<<<"a", "1">>>>, <<<<"b", "1">>>>, <<<<"d", "1">>>>>>

\* all rows have the length of row 0, which is 1 at least
Rectangular(data) ==
    /\ Len(data) >= 1
    /\ Len(data[1]) >= 1
    /\ \A r \in Rows(data) : Len(data[r]) = Len(data[1])

\* C17: every operation on a rectangular grid gives a rectangular grid;
\* addRow appends one row of as many empty cells as the rows have and
\* addColumn appends one empty cell to every row, and both leave the cells
\* there were as they are.
C17_Rectangularity ==
    [][Rectangular(tableData) =>
        /\ Rectangular(tableData')
        /\ lastOp' = "addRow" =>
            /\ Len(tableData') = Len(tableData) + 1
            /\ SubSeq(tableData', 1, Len(tableData)) = tableData
            /\ tableData'[Len(tableData')] = [i \in 1..Len(tableData[1]) |-> <<>>]
        /\ lastOp' = "addColumn" =>
            /\ Len(tableData') = Len(tableData)
            /\ \A r \in Rows(tableData) : tableData'[r] = Append(tableData[r], <<>>)]_vars

\* addColumn has acted on the rectangular grid of the rows a1 and b1
C17_Witness ==
    /\ lastOp = "addColumn"
    /\ tableData = <<<<<<"a", "1">>, <<>>>>, <<<<"b", "1">>, <<>>>>>>

\* the row without its cell at index i (0-based), when it has one
WithoutCell(row, i) == IF i < Len(row) THEN WithoutRow(row, i) ELSE row

\* C20: at most one of selectedRowIndex and selectedColumnIndex is not -1,
\* a selected row index is an index of the grid and a selected column index
\* an index of row 0; a delete-selected operation that changes the grid
\* removes the row, or the cells of the column, at the selected index.
C20_SelectionValid ==
    /\ [](selectedRowIndex = -1 \/ selectedColumnIndex = -1)
    /\ [](selectedRowIndex \in -1..(Len(tableData) - 1))
    /\ [](selectedColumnIndex \in -1..(Len(rowAt(tableData, 0)) - 1))
    /\ [][(lastOp' = "deleteSelectedRow" /\ tableData' # tableData) =>
            tableData' = WithoutRow(tableData, selectedRowIndex)]_vars
    /\ [][(lastOp' = "deleteSelectedColumn" /\ tableData' # tableData) =>
            tableData' = [r \in Rows(tableData) |->
                            WithoutCell(tableData[r], selectedColumnIndex)]]_vars

\* deleteSelectedRow removed the selected row (the selection is cleared)
\* from a grid that had three rows a, b, c: the row b
C20_Witness ==
    /\ lastOp = "deleteSelectedRow"
    /\ selectedRowIndex = -1
    /\ tableData = <<<<<<"a", "1">>>>, <<<<"c", "1">>>>>>

-----------------------------------------------------------------------------
(* Properties of the span parsed (under SpecSpan) *)

\* the lines of the span found, trimmed
SpanLines == [k \in 1..(span[2] - span[1] + 1) |-> trim(lineAt(doc, span[1] + k - 1))]

\* the lines of the span but a second line that matches the separator
\* pattern
RowLines ==
    IF Len(SpanLines) >= 2 /\ SeparatorPattern(SpanLines[2])
    THEN <<SpanLines[1]>> \o SubSeq(SpanLines, 3, Len(SpanLines))
    ELSE SpanLines

\* C18: in the grid parsed from a span of the locator every line of the
\* span other than a separator line at position 1 gave one row of one cell
\* at least: the grid is not empty, its row 0 comes from the first line and
\* it has the span's lines as rows, less one for a separator second line.
C18_NoZeroCellLine ==
    (fmtPc = "parsed" /\ cur # -1) =>
        /\ \A k \in 1..Len(SpanLines) : includes(SpanLines[k], Pipe) /\ Len(SpanLines[k]) > 2
        /\ Len(G2) >= 1
        /\ Len(G2) = Len(RowLines)
        /\ \A j \in 1..Len(G2) : Len(G2[j]) >= 1 /\ G2[j] = lineCells(RowLines[j])

\* the span "|||", "|:-|", "| |" parsed to a row of two empty cells and a
\* row of one
C18_Witness ==
    /\ fmtPc = "parsed"
    /\ doc = <<LineBars, TextSepColon, LineEmptyCell>>
    /\ span = <<0, 2>>
    /\ G2 = <<<<<<>>, <<>>>>, <<<<>>>>>>

-----------------------------------------------------------------------------
(* Properties of the edit sessions (under SpecPanel), continued *)

\* C19: whatever commands ran between the opening of an edit session and
\* its save, the lines startLine..endLine that the save replaces are, in
\* the document as it is when the save runs, the lines of one table: the
\* save overwrites no other line and leaves no line of the table behind.
C19_SpanNeverStale ==
    [][lastWrite'.op = "save" =>
        <<lastWrite'.startLine, lastWrite'.endLine>> \in LensArgs(doc)]_vars

====
